---- MODULE Spec2Model ----
(***************************************************************************)
(* A model of fatima-go/queryman: the statement model and its conditional  *)
(* refinement (domain.go), the registry and the entry points (queryman.go), *)
(* the binder and the batch executor (the executor source), and the        *)
(* single-row result (result.go).                                          *)
(*                                                                         *)
(* Query text is a sequence of one-character symbols:                      *)
(*   "s" "f" "g" "h"   plain SQL text                                      *)
(*   "T0" "T1" "T2"    the synthetic ids of the IfClauses (\x00<seq>\x00)   *)
(*   ":a" ":b" ":c"    named placeholders, ":a*" a named array placeholder *)
(*   ":!"              a malformed placeholder the normalizer rejects      *)
(*   "#"               the hold byte of a held query, "?" the driver's own *)
(*                     placeholder                                         *)
(***************************************************************************)
EXTENDS Integers, Sequences, FiniteSets, TLC

\* ------------------------------------------------------------------ bounds
MaxRows == 3        \* longest batch
MaxBad == 1         \* elements of a batch that differ from its first shape
MaxAffected == 2    \* largest affected-row count the driver reports for a row
MaxScans == 2       \* Scan calls on one single-row result

\* ------------------------------------------------------------- domain.go
eleTypeUnknown == 0
eleTypeInsert == 1
eleTypeUpdate == 2
eleTypeSelect == 3
eleTypeIf == 4

columnBindTypeNormal == 0
columnBindTypeArray == 1

holdByte == "#"
nativeHold == "?"

NoErr == ""

Names == {"a", "b", "c"}

\* the named placeholders the normalizer understands: symbol -> ColumnBind
\* name and bind type
RawHolds == {":a", ":b", ":c", ":a*"}
badHold == ":!"

holdName(sym) ==
    CASE sym = ":a" -> "a"
      [] sym = ":b" -> "b"
      [] sym = ":c" -> "c"
      [] sym = ":a*" -> "a"

holdBindType(sym) == IF sym = ":a*" THEN columnBindTypeArray ELSE columnBindTypeNormal

NewColumnBind(name, pos) ==
    [name |-> name, holdPos |-> pos, bindType |-> columnBindTypeNormal]

NewColumnBindArray(name, pos) ==
    [name |-> name, holdPos |-> pos, bindType |-> columnBindTypeArray]

\* strings.Replace(text, id, with, -1) on symbol sequences
RECURSIVE Replace(_, _, _)
Replace(text, id, with) ==
    IF text = <<>> THEN <<>>
    ELSE IF Head(text) = id THEN with \o Replace(Tail(text), id, with)
    ELSE <<Head(text)>> \o Replace(Tail(text), id, with)

Contains(text, sym) == \E i \in 1..Len(text) : text[i] = sym

\* QueryNormalizer.resolveHolding: hold bytes become driver placeholders
resolveHolding(text) ==
    [i \in 1..Len(text) |-> IF text[i] = holdByte THEN nativeHold ELSE text[i]]

RECURSIVE ScanHolds(_, _)
ScanHolds(text, pos) ==
    IF pos > Len(text) THEN <<>>
    ELSE IF text[pos] \in RawHolds
         THEN <<IF holdBindType(text[pos]) = columnBindTypeArray
                THEN NewColumnBindArray(holdName(text[pos]), pos)
                ELSE NewColumnBind(holdName(text[pos]), pos)>>
              \o ScanHolds(text, pos + 1)
         ELSE ScanHolds(text, pos + 1)

\* QueryNormalizer.normalize(&stmt): rewrites the named placeholders of
\* stmt.Query, records the held query and recomputes the column bindings and
\* their positions. Returns [stmt, err].
normalize(stmt) ==
    IF Contains(stmt.Query, badHold)
    THEN [stmt |-> stmt, err |-> "normalize"]
    ELSE LET held == [i \in 1..Len(stmt.Query) |->
                        IF stmt.Query[i] \in RawHolds THEN holdByte ELSE stmt.Query[i]]
         IN [stmt |-> [stmt EXCEPT !.HoldedQuery = held,
                                   !.Query = resolveHolding(held),
                                   !.columnMention = ScanHolds(stmt.Query, 1)],
             err |-> NoErr]

hasArrayBind(q) ==
    \E i \in 1..Len(q.columnMention) : q.columnMention[i].bindType = columnBindTypeArray

firstArgsIsArray(q) ==
    /\ Len(q.columnMention) > 0
    /\ q.columnMention[1].bindType = columnBindTypeArray

HasCondition(stmt) == Len(stmt.clause) > 0

clone(stmt) ==
    [eleType |-> stmt.eleType, Id |-> stmt.Id, Query |-> stmt.Query,
     clause |-> [i \in 1..Len(stmt.clause) |-> stmt.clause[i]],
     columnMention |-> [i \in 1..Len(stmt.columnMention) |-> stmt.columnMention[i]],
     HoldedQuery |-> stmt.HoldedQuery]

\* the presence map of RefineStatement: nil is Go's nil map, keys the keys of
\* a map that is not nil
NilMap == [nil |-> TRUE, keys |-> {}]
MapOf(keys) == [nil |-> FALSE, keys |-> keys]

\* the loop body without the test for a nil presence map
RefineClauseNoNilTest(query, v, params) ==
    IF v.exist
    THEN (IF v.key \in params.keys THEN Replace(query, v.id, v.query)
          ELSE Replace(query, v.id, <<>>))
    ELSE (IF v.key \notin params.keys THEN Replace(query, v.id, v.query)
          ELSE Replace(query, v.id, <<>>))

\* one iteration of the loop of RefineStatement over clause v
RefineClause(query, v, params) ==
    IF params.nil THEN Replace(query, v.id, <<>>)
    ELSE IF v.exist
         THEN (IF v.key \in params.keys THEN Replace(query, v.id, v.query)
               ELSE Replace(query, v.id, <<>>))
         ELSE (IF v.key \notin params.keys THEN Replace(query, v.id, v.query)
               ELSE Replace(query, v.id, <<>>))

RECURSIVE RefineLoop(_, _, _, _)
RefineLoop(query, clauses, i, params) ==
    IF i > Len(clauses) THEN query
    ELSE RefineLoop(RefineClause(query, clauses[i], params), clauses, i + 1, params)

\* QueryStatement.RefineStatement: [stmt, err, text, normalized]; text is the
\* refined text handed to the normalizer, normalized the number of normalize calls
RefineStatement(stmt, params) ==
    LET refined == clone(stmt)
        text == RefineLoop(refined.Query, stmt.clause, 1, params)
        n == normalize([refined EXCEPT !.Query = text])
    IN [stmt |-> n.stmt, err |-> n.err, text |-> text, normalized |-> 1]

\* ------------------------------------------------------- parameter values
\* A caller's value: kind is the Go type behind any pointer, ind the
\* indirection in front of it, keys the keys of a map or the exported fields
\* of a struct, elems the elements of a slice or array. For a map or struct,
\* elems is <<>> when key "a" holds a scalar and <<l>> when it holds the list l.
\*   kind: "scalar" | "nil" (untyped nil) | "valuer" (a struct with Value())
\*         | "struct" | "map" (map[string]interface{}) | "mapT" (map[string]T)
\*         | "mapK" (a map with non-string keys) | "slice" ([]T)
\*         | "sliceI" ([]interface{}) | "array" ([n]T)
\*   ind:  "val" | "ptr" | "nilptr" | "ptrptr" | "ptriface"
Val(kind, ind, keys, elems) ==
    [kind |-> kind, ind |-> ind, keys |-> keys, elems |-> elems]

Scalar == Val("scalar", "val", {}, <<>>)
Nil == Val("nil", "val", {}, <<>>)

\* reflect.TypeOf(x).Kind() of the type behind the value, no pointer in front
baseKind(x) ==
    CASE x.kind \in {"struct", "valuer"} -> "Struct"
      [] x.kind \in {"map", "mapT", "mapK"} -> "Map"
      [] x.kind \in {"slice", "sliceI"} -> "Slice"
      [] x.kind = "array" -> "Array"
      [] OTHER -> "Other"

\* reflect.TypeOf(x).Kind(); "panic" for the untyped nil, whose type is nil
Kind(x) ==
    IF x.kind = "nil" THEN "panic"
    ELSE IF x.ind = "val" THEN baseKind(x) ELSE "Ptr"

\* the kind after the "reform ptr" step: atype.Elem().Kind() for a pointer
ElemKind(x) ==
    CASE x.kind = "nil" -> "panic"
      [] x.ind \in {"val", "ptr", "nilptr"} -> baseKind(x)
      [] x.ind = "ptrptr" -> "Ptr"
      [] x.ind = "ptriface" -> "Interface"

IsNilPtr(x) == x.ind = "nilptr"

\* reflect.ValueOf(val).Elem().Interface(): the value behind one pointer
Deref(x) == IF x.ind = "ptr" THEN [x EXCEPT !.ind = "val"] ELSE x

isValuer(x) == x.kind = "valuer"

\* ----------------------------------------------------------- queryman.go
\* strings.ToUpper on the ids the model uses
ToUpper(id) ==
    CASE id \in {"insA", "INSA"} -> "INSA"
      [] id = "updA" -> "UPDA"
      [] id = "selC" -> "SELC"
      [] id = "updC" -> "UPDC"
      [] id = "selIn" -> "SELIN"
      [] id = "updIn" -> "UPDIN"
      [] id = "selBad" -> "SELBAD"
      [] OTHER -> "NOPE"

IfClause(id, key, query, exist) ==
    [id |-> id, key |-> key, query |-> query, exist |-> exist]

Statement(eleType, id, query, clause) ==
    [eleType |-> eleType, Id |-> id, Query |-> query, clause |-> clause,
     columnMention |-> <<>>, HoldedQuery |-> <<>>]

\* The statements the loader hands to registStatement, in file order. The
\* second "INSA" repeats an id; "selBad" has a malformed placeholder.
Catalogue ==
    << Statement(eleTypeInsert, "insA", <<"s", ":a", "s", ":b">>, <<>>),
       Statement(eleTypeUpdate, "updA", <<"s", ":a">>, <<>>),
       Statement(eleTypeSelect, "selC", <<"s", ":a", "T0", "T1">>,
                 << IfClause("T0", "b", <<"f", ":b">>, TRUE),
                    IfClause("T1", "c", <<"g">>, FALSE) >>),
       Statement(eleTypeUpdate, "updC", <<"s", "T2", "s", ":a">>,
                 << IfClause("T2", "b", <<"h", ":b">>, TRUE) >>),
       Statement(eleTypeSelect, "selIn", <<"s", ":b", "s", ":a*">>, <<>>),
       Statement(eleTypeUpdate, "updIn", <<"s", ":a*", "s", ":b">>, <<>>),
       Statement(eleTypeUpdate, "INSA", <<"s">>, <<>>),
       Statement(eleTypeSelect, "selBad", <<"s", ":!">>, <<>>) >>

ClauseIds == {"T0", "T1", "T2"}

\* QueryMan.buildStatement: [stmt, err]
buildStatement(queryStatement) ==
    IF ~HasCondition(queryStatement)
    THEN normalize(queryStatement)
    ELSE [stmt |-> queryStatement, err |-> NoErr]

\* registStatement without the duplicate check
registStatementOverwrite(map, queryStatement) ==
    LET b == buildStatement(queryStatement)
        id == ToUpper(b.stmt.Id)
    IN IF b.err # NoErr THEN map
       ELSE [k \in DOMAIN map \cup {id} |-> IF k = id THEN b.stmt ELSE map[k]]

\* QueryMan.registStatement: the statement map afterwards
registStatement(map, queryStatement) ==
    LET b == buildStatement(queryStatement)
        id == ToUpper(b.stmt.Id)
    IN IF b.err # NoErr THEN map
       ELSE IF id \in DOMAIN map THEN map
       ELSE [k \in DOMAIN map \cup {id} |-> IF k = id THEN b.stmt ELSE map[k]]

\* QueryMan.find: [stmt, err]; ids of the model hold no white space
find(map, id) ==
    IF ToUpper(id) \in DOMAIN map
    THEN [stmt |-> map[ToUpper(id)], err |-> NoErr]
    ELSE [stmt |-> Statement(eleTypeUnknown, "", <<>>, <<>>), err |-> "notfound"]

\* ------------------------------------------------------------- the binder
\* errors are strings, NoErr is Go's nil error
ErrNilPtr == "ErrNilPtr"
ErrInterfaceIsNotSupported == "ErrInterfaceIsNotSupported"
ErrPtrIsNotSupported == "ErrPtrIsNotSupported"
ErrInvalidMapType == "ErrInvalidMapType"
ErrExecutionInvalidSqlType == "ErrExecutionInvalidSqlType"
ErrQueryInvalidSqlType == "ErrQueryInvalidSqlType"
ErrNoRows == "ErrNoRows"
ErrQueryNeedsPtrParameter == "ErrQueryNeedsPtrParameter"
ErrBadConn == "driver.ErrBadConn"

\* m[name] of a flattened map: [found, ok]
MapIndex(m, name) ==
    IF name \in m.keys
    THEN [found |-> IF name = "a" /\ m.elems # <<>> THEN m.elems[1] ELSE Scalar,
          ok |-> TRUE]
    ELSE [found |-> Nil, ok |-> FALSE]

\* flattenToMap: [m, panic]; panics on a key that is no string
flattenToMap(v) ==
    [m |-> [v EXCEPT !.kind = "map"], panic |-> v.kind = "mapK"]

\* flattenStructToMap: [m, panic]; NumField panics on what is no struct
flattenStructToMap(s) ==
    [m |-> [s EXCEPT !.kind = "map"], panic |-> ~(s.kind \in {"struct", "valuer"} /\ s.ind = "val")]

\* flattenToList: the elements of a slice or array
flattenToList(v) == v.elems

\* flattenArray: [arr, cnt, panic]
flattenArray(v) ==
    IF Kind(v) = "panic" THEN [arr |-> <<>>, cnt |-> 1, panic |-> TRUE]
    ELSE IF Kind(v) = "Ptr" /\ IsNilPtr(v) THEN [arr |-> <<>>, cnt |-> 1, panic |-> FALSE]
    ELSE IF ElemKind(v) \notin {"Slice", "Array"}
         THEN [arr |-> <<v>>, cnt |-> 1, panic |-> FALSE]
    ELSE IF v.kind = "sliceI"
         THEN [arr |-> v.elems,
               cnt |-> IF Len(v.elems) = 0 THEN 0 ELSE Len(v.elems) - 1,
               panic |-> FALSE]
    ELSE IF v.ind = "ptr"
         THEN [arr |-> <<>>, cnt |-> 1, panic |-> TRUE]   \* Len of a pointer Value
    ELSE [arr |-> v.elems, cnt |-> Len(v.elems), panic |-> FALSE]

RECURSIVE reformArrayHold(_)
reformArrayHold(cnt) ==
    IF cnt = 0 THEN <<>>
    ELSE IF cnt = 1 THEN <<holdByte>>
    ELSE reformArrayHold(cnt - 1) \o <<",", holdByte>>

reformHoldQuery(holdQuery, columnBind, cnt) ==
    LET prefix == SubSeq(holdQuery, 1, columnBind.holdPos - 1)
        suffix == SubSeq(holdQuery, columnBind.holdPos + 1, Len(holdQuery))
    IN prefix \o reformArrayHold(cnt) \o suffix

\* one iteration of the binding loop shared by resolveColumnBindInList and
\* resolveColumnBindInMap over column v with value found; st is
\* [param, hold, touch, err, panic]
BindColumn(st, v, found) ==
    IF v.bindType = columnBindTypeNormal
    THEN [st EXCEPT !.param = Append(st.param, found)]
    ELSE LET fa == flattenArray(found)
         IN IF fa.panic THEN [st EXCEPT !.panic = TRUE]
            ELSE IF fa.cnt > 1
                 THEN (IF st.touch
                       THEN [st EXCEPT !.param = st.param \o fa.arr, !.err = "onlyOneIn"]
                       ELSE [st EXCEPT !.param = st.param \o fa.arr,
                                       !.hold = reformHoldQuery(st.hold, v, fa.cnt),
                                       !.touch = TRUE])
                 ELSE [st EXCEPT !.param = st.param \o fa.arr]

BindStart(clone_) ==
    [param |-> <<>>, hold |-> clone_.HoldedQuery, touch |-> FALSE,
     err |-> NoErr, panic |-> FALSE]

BindResult(clone_, st) ==
    [query |-> IF st.touch /\ st.err = NoErr /\ ~st.panic
               THEN resolveHolding(st.hold) ELSE clone_.Query,
     param |-> st.param, err |-> st.err, panic |-> st.panic]

RECURSIVE BindListLoop(_, _, _, _)
BindListLoop(st, cols, i, args) ==
    IF i > Len(cols) \/ st.err # NoErr \/ st.panic THEN st
    ELSE BindListLoop(BindColumn(st, cols[i], args[i]), cols, i + 1, args)

\* resolveColumnBindInList: [query, param, err, panic]
resolveColumnBindInList(stmt, args) ==
    IF ~hasArrayBind(stmt)
    THEN [query |-> stmt.Query, param |-> args, err |-> NoErr, panic |-> FALSE]
    ELSE LET c == clone(stmt)
         IN IF Len(c.columnMention) > Len(args)
            THEN [query |-> c.Query, param |-> <<>>, err |-> "mismatch", panic |-> FALSE]
            ELSE BindResult(c, BindListLoop(BindStart(c), c.columnMention, 1, args))

RECURSIVE BindMapLoop(_, _, _, _)
BindMapLoop(st, cols, i, m) ==
    IF i > Len(cols) \/ st.err # NoErr \/ st.panic THEN st
    ELSE BindMapLoop(BindColumn(st, cols[i], MapIndex(m, cols[i].name).found),
                     cols, i + 1, m)

\* the loop of the branch without an array column: every name must be found
RECURSIVE LookupLoop(_, _, _, _)
LookupLoop(param, cols, i, m) ==
    IF i > Len(cols) THEN [param |-> param, err |-> NoErr]
    ELSE IF ~MapIndex(m, cols[i].name).ok THEN [param |-> param, err |-> "notfound"]
    ELSE LookupLoop(Append(param, MapIndex(m, cols[i].name).found), cols, i + 1, m)

\* resolveColumnBindInMap: [query, param, err, panic]
resolveColumnBindInMap(stmt, m) ==
    IF ~hasArrayBind(stmt)
    THEN LET l == LookupLoop(<<>>, stmt.columnMention, 1, m)
         IN [query |-> stmt.Query, param |-> l.param, err |-> l.err, panic |-> FALSE]
    ELSE LET c == clone(stmt)
         IN BindResult(c, BindMapLoop(BindStart(c), c.columnMention, 1, m))

\* ------------------------------------------------ execute and queryMultiRow
\* What a handler leaves behind:
\*   kind   "ret" it returned, "abort" a panic left it with no recover in
\*          place, "batch" it handed the list to a batch executor
\*   err    the error returned (NoErr: none); "recovered" is the error the
\*          deferred recover of execute and queryMultiRow builds
\*   res    the result returned: "nil", "sql" (the driver's), "rows" (a cursor)
\*   proxy  the calls made on the SqlProxy: [op, text, param, ans], ans what
\*          the driver answered
\*   refine what refineConditional did: [did, id, params, text, normalized] and,
\*          when the call before refined the same statement with the same
\*          presence map (again), the text that refinement gave (before)
NoRefine ==
    [did |-> FALSE, id |-> "", params |-> NilMap, text |-> <<>>, normalized |-> 0,
     again |-> FALSE, before |-> <<>>]

Out(kind, err, res, proxy) ==
    [kind |-> kind, err |-> err, res |-> res, proxy |-> proxy,
     refine |-> NoRefine, shape |-> "none", args |-> <<>>,
     stmt |-> Statement(eleTypeUnknown, "", <<>>, <<>>)]

Ret(err) == Out("ret", err, "nil", <<>>)
Recovered == Out("ret", "recovered", "nil", <<>>)
Abort == Out("abort", NoErr, "nil", <<>>)
ToBatch(shape, stmt, args) ==
    [Out("batch", NoErr, "nil", <<>>) EXCEPT !.shape = shape, !.stmt = stmt, !.args = args]

ProxyCall(op, text, param, ans) ==
    [op |-> op, text |-> text, param |-> param, ans |-> ans]

\* sqlProxy.exec(query, args...): drv is what the driver answers
proxyExec(text, param, drv) ==
    IF drv = "ok"
    THEN Out("ret", NoErr, "sql", <<ProxyCall("exec", text, param, drv)>>)
    ELSE Out("ret", drv, "nil", <<ProxyCall("exec", text, param, drv)>>)

\* sqlProxy.query(query, args...) and newQueryResult / newQueryResultError
proxyQuery(text, param, drv) ==
    IF drv = "ok"
    THEN Out("ret", NoErr, "rows", <<ProxyCall("query", text, param, drv)>>)
    ELSE Out("ret", drv, "nil", <<ProxyCall("query", text, param, drv)>>)

\* refineConditional: [stmt, err, panic, refine]
Refined(r, params) ==
    [stmt |-> r.stmt, err |-> r.err, panic |-> FALSE,
     refine |-> [did |-> TRUE, id |-> r.stmt.Id, params |-> params, text |-> r.text,
                 normalized |-> r.normalized, again |-> FALSE, before |-> <<>>]]

refineConditional(stmt, v) ==
    IF ~HasCondition(stmt)
    THEN [stmt |-> stmt, err |-> NoErr, panic |-> FALSE, refine |-> NoRefine]
    ELSE IF Len(v) = 0 THEN Refined(RefineStatement(stmt, NilMap), NilMap)
    ELSE IF Kind(v[1]) = "panic"
         THEN [stmt |-> stmt, err |-> NoErr, panic |-> TRUE, refine |-> NoRefine]
    ELSE IF Kind(v[1]) = "Ptr" /\ IsNilPtr(v[1])
         THEN [stmt |-> stmt, err |-> ErrNilPtr, panic |-> FALSE, refine |-> NoRefine]
    ELSE IF ElemKind(v[1]) = "Map"
         THEN (IF Deref(v[1]).kind = "map"
               THEN Refined(RefineStatement(stmt, MapOf(v[1].keys)), MapOf(v[1].keys))
               ELSE IF flattenToMap(Deref(v[1])).panic
                    THEN [stmt |-> stmt, err |-> NoErr, panic |-> TRUE, refine |-> NoRefine]
                    ELSE Refined(RefineStatement(stmt, MapOf(v[1].keys)), MapOf(v[1].keys)))
    ELSE Refined(RefineStatement(stmt, NilMap), NilMap)

execWithMap(stmt, m, drv) ==
    LET r == resolveColumnBindInMap(stmt, m)
    IN IF r.panic THEN Recovered
       ELSE IF r.err # NoErr THEN Ret(r.err)
       ELSE proxyExec(r.query, r.param, drv)

execWithObject(stmt, parameter, drv) ==
    IF flattenStructToMap(parameter).panic THEN Recovered
    ELSE execWithMap(stmt, flattenStructToMap(parameter).m, drv)

execMap(val, stmt, drv) ==
    IF val.kind = "map" THEN execWithMap(stmt, val, drv)
    ELSE IF flattenToMap(val).panic THEN Recovered
    ELSE execWithMap(stmt, flattenToMap(val).m, drv)

execWithList(stmt, args, drv) ==
    IF Len(args) = 0 THEN Recovered                 \* args[0]: index out of range
    ELSE IF Kind(args[1]) = "panic" THEN Recovered  \* Kind() of a nil type
    ELSE IF Kind(args[1]) = "Ptr" /\ IsNilPtr(args[1]) THEN Ret(ErrNilPtr)
    ELSE IF hasArrayBind(stmt)
         THEN LET r == resolveColumnBindInList(stmt, args)
              IN IF r.panic THEN Recovered
                 ELSE IF r.err # NoErr THEN Ret(r.err)
                 ELSE proxyExec(r.query, r.param, drv)
    ELSE IF ElemKind(args[1]) = "Slice" THEN ToBatch("list", stmt, args)
    ELSE IF ElemKind(args[1]) = "Struct" /\ ~isValuer(Deref(args[1]))
         THEN ToBatch("struct", stmt, args)
    ELSE IF ElemKind(args[1]) = "Map" THEN ToBatch("map", stmt, args)
    ELSE IF Len(stmt.columnMention) > Len(args) THEN Ret("mismatch")
    ELSE proxyExec(stmt.Query, args, drv)

execList(val, stmt, drv) == execWithList(stmt, flattenToList(val), drv)

\* execute after refineConditional has returned execStmt
executeBody(stmt, execStmt, v, drv) ==
    IF Len(v) = 0 THEN proxyExec(execStmt.Query, <<>>, drv)
    ELSE IF Kind(v[1]) = "panic" THEN Recovered
    ELSE IF Kind(v[1]) = "Ptr" /\ IsNilPtr(v[1]) THEN Ret(ErrNilPtr)
    ELSE IF ElemKind(v[1]) = "Interface" THEN Ret(ErrInterfaceIsNotSupported)
    ELSE IF ElemKind(v[1]) = "Ptr" THEN Ret(ErrPtrIsNotSupported)
    ELSE IF ElemKind(v[1]) \in {"Slice", "Array"} /\ ~hasArrayBind(stmt)
         THEN execList(Deref(v[1]), execStmt, drv)
    ELSE IF ElemKind(v[1]) = "Struct" /\ ~isValuer(Deref(v[1]))
         THEN execWithObject(execStmt, Deref(v[1]), drv)
    ELSE IF ElemKind(v[1]) = "Map" THEN execMap(Deref(v[1]), execStmt, drv)
    ELSE execWithList(execStmt, v, drv)

execute(stmt, v, drv) ==
    LET rc == refineConditional(stmt, v)
    IN IF rc.panic THEN Abort
       ELSE IF rc.err # NoErr THEN [Ret("refine") EXCEPT !.refine = rc.refine]
       ELSE [executeBody(stmt, rc.stmt, v, drv) EXCEPT !.refine = rc.refine]

queryWithMap(stmt, m, drv) ==
    LET r == resolveColumnBindInMap(stmt, m)
    IN IF r.panic THEN Recovered
       ELSE IF r.err # NoErr THEN Ret(r.err)
       ELSE proxyQuery(r.query, r.param, drv)

queryWithObject(stmt, parameter, drv) ==
    IF flattenStructToMap(parameter).panic THEN Recovered
    ELSE queryWithMap(stmt, flattenStructToMap(parameter).m, drv)

queryMap(val, stmt, drv) ==
    IF val.kind = "map" THEN queryWithMap(stmt, val, drv)
    ELSE IF flattenToMap(val).panic THEN Recovered
    ELSE queryWithMap(stmt, flattenToMap(val).m, drv)

queryWithList(stmt, args, drv) ==
    IF Len(args) = 0 THEN Recovered
    ELSE IF Kind(args[1]) = "panic" THEN Recovered
    ELSE IF ElemKind(args[1]) \in {"Slice", "Struct", "Map"} /\ ~firstArgsIsArray(stmt)
         THEN Ret("unacceptable")
    ELSE IF Len(stmt.columnMention) > Len(args) THEN Ret("mismatch")
    ELSE LET r == resolveColumnBindInList(stmt, args)
         IN IF r.panic THEN Recovered
            ELSE IF r.err # NoErr THEN Ret(r.err)
            ELSE proxyQuery(r.query, r.param, drv)

queryList(val, stmt, drv) == queryWithList(stmt, flattenToList(val), drv)

\* queryMultiRow after refineConditional has returned execStmt
queryBody(stmt, execStmt, v, drv) ==
    IF Len(v) = 0 THEN proxyQuery(execStmt.Query, <<>>, drv)
    ELSE IF Kind(v[1]) = "panic" THEN Recovered
    ELSE IF Kind(v[1]) = "Ptr" /\ IsNilPtr(v[1]) THEN Ret(ErrNilPtr)
    ELSE IF ElemKind(v[1]) = "Interface" THEN Ret(ErrInterfaceIsNotSupported)
    ELSE IF ElemKind(v[1]) = "Ptr" THEN Ret(ErrPtrIsNotSupported)
    ELSE IF ElemKind(v[1]) \in {"Slice", "Array"} /\ ~firstArgsIsArray(stmt)
         THEN queryList(Deref(v[1]), execStmt, drv)
    ELSE IF ElemKind(v[1]) = "Struct" /\ ~isValuer(Deref(v[1]))
         THEN queryWithObject(stmt, Deref(v[1]), drv)
    ELSE IF ElemKind(v[1]) = "Map" THEN queryMap(Deref(v[1]), execStmt, drv)
    ELSE queryWithList(execStmt, v, drv)

queryMultiRow(stmt, v, drv) ==
    LET rc == refineConditional(stmt, v)
    IN IF rc.panic THEN Abort
       ELSE IF rc.err # NoErr THEN [Ret("refine") EXCEPT !.refine = rc.refine]
       ELSE [queryBody(stmt, rc.stmt, v, drv) EXCEPT !.refine = rc.refine]

\* QueryMan.CreateBulkWithStmt; "bulk" is the Bulk newQuerymanBulk makes
CreateBulkWithStmt(map, id) ==
    LET f == find(map, id)
    IN IF f.err # NoErr THEN Ret(f.err)
       ELSE IF f.stmt.eleType # eleTypeInsert /\ f.stmt.eleType # eleTypeUpdate
            THEN Ret(ErrExecutionInvalidSqlType)
       ELSE Out("ret", NoErr, "bulk", <<>>)

\* ExecuteWithStmt without the test of the statement's kind
ExecuteWithStmtAnyKind(map, id, v, drv) ==
    LET f == find(map, id)
    IN IF f.err # NoErr THEN Ret(f.err)
       ELSE execute(f.stmt, v, drv)

\* QueryMan.ExecuteWithStmt
ExecuteWithStmt(map, id, v, drv) ==
    LET f == find(map, id)
    IN IF f.err # NoErr THEN Ret(f.err)
       ELSE IF f.stmt.eleType # eleTypeInsert /\ f.stmt.eleType # eleTypeUpdate
            THEN Ret(ErrExecutionInvalidSqlType)
       ELSE execute(f.stmt, v, drv)

\* QueryMan.QueryWithStmt
QueryWithStmt(map, id, v, drv) ==
    LET f == find(map, id)
    IN IF f.err # NoErr THEN Ret(f.err)
       ELSE IF f.stmt.eleType # eleTypeSelect THEN Ret(ErrQueryInvalidSqlType)
       ELSE queryMultiRow(f.stmt, v, drv)

\* QueryMan.QueryRowWithStmt: the QueryResult is turned into a QueryRowResult
\* carrying its error or its cursor
QueryRowWithStmt(map, id, v, drv) ==
    LET f == find(map, id)
    IN IF f.err # NoErr THEN Ret(f.err)
       ELSE IF f.stmt.eleType # eleTypeSelect THEN Ret(ErrQueryInvalidSqlType)
       ELSE queryMultiRow(f.stmt, v, drv)

\* ------------------------------------------------------ the batch executor
\* The validate loop of doExecWithNestedList over args: "ok", "err" or "panic"
RECURSIVE validateList(_, _, _)
validateList(args, i, stmt) ==
    IF i > Len(args) THEN "ok"
    ELSE IF Kind(args[i]) = "panic" THEN "panic"
    ELSE IF Kind(args[i]) # "Slice" /\ Kind(args[i]) # "Array" THEN "err"
    ELSE IF Len(stmt.columnMention) > Len(args[i].elems) THEN "err"
    ELSE validateList(args, i + 1, stmt)

\* The validate loop of doExecWithNestedMap over args
RECURSIVE validateMap(_, _, _)
validateMap(args, i, stmt) ==
    IF i > Len(args) THEN "ok"
    ELSE IF Kind(args[i]) = "panic" THEN "panic"
    ELSE IF Kind(args[i]) # "Map" THEN "err"
    ELSE IF Len(stmt.columnMention) > Cardinality(args[i].keys) THEN "err"
    ELSE validateMap(args, i + 1, stmt)

\* doExecWithStructList has no validate loop
validateStruct(args, i, stmt) == "ok"

validate(shape, args, stmt) ==
    CASE shape = "list" -> validateList(args, 1, stmt)
      [] shape = "map" -> validateMap(args, 1, stmt)
      [] shape = "struct" -> validateStruct(args, 1, stmt)

\* What the iterate loop does with element v before pstmt.Exec:
\* [err, panic, param]; err = NoErr and no panic means Exec is called
resolveRowList(v, stmt) ==
    [err |-> NoErr, panic |-> FALSE, param |-> flattenToList(v)]

resolveRowMap(v, stmt) ==
    IF v.kind # "map" \/ v.ind # "val"
    THEN [err |-> ErrInvalidMapType, panic |-> FALSE, param |-> <<>>]
    ELSE LET l == LookupLoop(<<>>, stmt.columnMention, 1, v)
         IN [err |-> l.err, panic |-> FALSE, param |-> l.param]

resolveRowStruct(v, stmt) ==
    IF Kind(v) = "panic" THEN [err |-> NoErr, panic |-> TRUE, param |-> <<>>]
    ELSE IF Kind(v) = "Ptr" /\ IsNilPtr(v)
         THEN [err |-> ErrNilPtr, panic |-> FALSE, param |-> <<>>]
    ELSE IF flattenStructToMap(Deref(v)).panic
         THEN [err |-> NoErr, panic |-> TRUE, param |-> <<>>]
    ELSE LET l == LookupLoop(<<>>, stmt.columnMention, 1, flattenStructToMap(Deref(v)).m)
         IN [err |-> l.err, panic |-> FALSE, param |-> l.param]

resolveRow(shape, v, stmt) ==
    CASE shape = "list" -> resolveRowList(v, stmt)
      [] shape = "map" -> resolveRowMap(v, stmt)
      [] shape = "struct" -> resolveRowStruct(v, stmt)

\* ExecMultiResult
EmptyResult == [idList |-> <<>>, rowAffected |-> 0]
\* identifiers collected newest first
addInsertIdFront(p, id) == [p EXCEPT !.idList = <<id>> \o p.idList]

addInsertId(p, id) == [p EXCEPT !.idList = Append(p.idList, id)]

\* args[executed:] of the retry
retryArgs(args, executed) == SubSeq(args, executed + 1, Len(args))

\* a merge that forgets the identifiers of the second pass
mergeResultCountOnly(result, nextResult, err) ==
    IF err = NoErr
    THEN [idList |-> result.idList,
          rowAffected |-> result.rowAffected + nextResult.rowAffected]
    ELSE result

\* execWith...: the result returned once the second pass has returned
mergeResult(result, nextResult, err) ==
    IF err = NoErr
    THEN [idList |-> result.idList \o nextResult.idList,
          rowAffected |-> result.rowAffected + nextResult.rowAffected]
    ELSE result

\* a retry after every pass that lost the connection
shouldRetryAlways(pass, err) == err = ErrBadConn

\* whether the pass is to be run again: err == driver.ErrBadConn after the
\* first doExec... call only
shouldRetry(pass, err) == pass = 1 /\ err = ErrBadConn

\* a Close written at the end of the loop instead of deferred: a panic skips it
closeUnlessPanic(why) == why # "panic"

\* defer pstmt.Close(): runs on every way out of doExec...
deferClose(why) == TRUE

\* ---------------------------------------------------------------- inputs
MaxLen == 3         \* longest list bound to one array column

ScalarList(kind, n) == Val(kind, "val", {}, [i \in 1..n |-> Scalar])

\* a value for an array column
ArrVals ==
    {ScalarList(k, n) : k \in {"slice", "sliceI", "array"}, n \in 0..MaxLen}
    \cup {[ScalarList(k, 2) EXCEPT !.ind = "ptr"] : k \in {"slice", "sliceI"}}
    \cup {[ScalarList("slice", 0) EXCEPT !.ind = "nilptr"], Scalar, Nil}

MapVals ==
    {Val(k, "val", ks, <<>>) : k \in {"map", "mapT"}, ks \in SUBSET Names}
    \cup {Val("mapK", "val", {"a", "b"}, <<>>)}
    \cup {Val("map", "val", ks, <<l>>) : ks \in {{"a"}, {"a", "b"}}, l \in ArrVals}

StructVals ==
    {Val("struct", "val", ks, <<>>) : ks \in SUBSET Names}
    \cup {Val("valuer", "val", {}, <<>>)}

PtrVals ==
    {[x EXCEPT !.ind = i] :
        x \in {Scalar, Val("map", "val", {"a", "b"}, <<>>),
               Val("struct", "val", {"a", "b"}, <<>>), ScalarList("slice", 2)},
        i \in {"ptr", "nilptr", "ptrptr", "ptriface"}}

\* the elements of a batch
GoodElem(shape) ==
    CASE shape = "list" -> ScalarList("slice", 2)
      [] shape = "map" -> Val("map", "val", {"a", "b"}, <<>>)
      [] shape = "struct" -> Val("struct", "val", {"a", "b"}, <<>>)

OddElems ==
    {ScalarList("slice", 1), ScalarList("slice", 2), ScalarList("array", 2),
     Val("map", "val", {"a", "b"}, <<>>), Val("map", "val", {"a"}, <<>>),
     Val("map", "val", {"a", "c"}, <<>>), Val("mapT", "val", {"a", "b"}, <<>>),
     Val("struct", "val", {"a", "b"}, <<>>), Val("struct", "val", {"a"}, <<>>),
     Val("struct", "ptr", {"a", "b"}, <<>>), Val("struct", "nilptr", {"a", "b"}, <<>>),
     Scalar, Nil}

BatchLists ==
    {Val("sliceI", "val", {}, b) :
        b \in UNION {{c \in [1..n -> OddElems \cup {GoodElem(sh)}] :
                        Cardinality({i \in 1..n : c[i] # GoodElem(sh)}) <= MaxBad} :
                     n \in 1..MaxRows, sh \in {"list", "map", "struct"}}}

\* the variadic parameter list v of a call
Inputs ==
    {<<>>, <<Scalar>>, <<Scalar, Scalar>>, <<Nil>>}
    \cup {<<x>> : x \in MapVals \cup StructVals \cup PtrVals \cup ArrVals \cup BatchLists}
    \cup {<<l, Scalar>> : l \in ArrVals}
    \cup {<<Scalar, l>> : l \in ArrVals}

CallIds == {"insA", "updA", "selC", "updC", "selIn", "updIn", "selBad", "nope"}
Entries == {"execute", "query", "queryRow"}
DriverAnswers == {"ok", "driver", ErrBadConn}

\* --------------------------------------------------------------- result.go
\* QueryRowResult; pstmt is "nil" or "stmt", rows is "nil" or "rows"
NoRow == [transaction |-> FALSE, pstmt |-> "nil", err |-> NoErr, rows |-> "nil"]

newQueryRowResultError(err) == [NoRow EXCEPT !.err = err]

newQueryRowResult(stmt, rows) ==
    [NoRow EXCEPT !.pstmt = stmt, !.rows = rows, !.transaction = FALSE]

SetTransaction(r) == [r EXCEPT !.transaction = TRUE]

\* what the cursor answers to Err, Next and Scan during one QueryRowResult.Scan:
\*   "err"     rows.Err() is an error at once
\*   "none"    Next is false, no error
\*   "broken"  Next is false, rows.Err() is an error
\*   "row"     Next is true, Scan succeeds
\*   "badScan" Next is true, Scan fails
RowAnswers == {"err", "none", "broken", "row", "badScan"}

\* the destinations v of Scan
Dests ==
    {<<>>, <<Scalar>>, <<Nil>>, <<Val("struct", "val", {"a"}, <<>>)>>}
    \cup {<<Val(k, i, {}, <<>>)>> : k \in {"scalar", "struct", "valuer"},
                                  i \in {"ptr", "nilptr", "ptrptr", "ptriface"}}

rowsScan(ans) == IF ans = "row" THEN NoErr ELSE "scan"

\* QueryRowResult.scanToStruct
scanToStruct(ans) == rowsScan(ans)

\* the body of QueryRowResult.Scan, without its deferred calls: [err, panic]
ScanBody(r, v, ans) ==
    LET ret(e) == [err |-> e, panic |-> FALSE]
        panic == [err |-> NoErr, panic |-> TRUE]
    IN IF r.err # NoErr THEN ret(r.err)
       ELSE IF r.rows = "nil" THEN panic
       ELSE IF ans = "err" THEN ret("rows.Err")
       ELSE IF ans = "broken" THEN ret("rows.Err")
       ELSE IF ans = "none" THEN ret(ErrNoRows)
       ELSE IF Len(v) = 0 THEN panic
       ELSE IF Kind(v[1]) = "panic" THEN panic
       ELSE IF Kind(v[1]) # "Ptr" THEN ret(ErrQueryNeedsPtrParameter)
       ELSE IF IsNilPtr(v[1]) THEN ret(ErrNilPtr)
       ELSE IF ElemKind(v[1]) = "Interface" THEN ret(ErrInterfaceIsNotSupported)
       ELSE IF ElemKind(v[1]) = "Ptr" THEN ret(ErrPtrIsNotSupported)
       ELSE IF ElemKind(v[1]) = "Struct" /\ ~isValuer(Deref(v[1]))
            THEN ret(scanToStruct(ans))
       ELSE ret(rowsScan(ans))

\* the deferred cleanup that leaves the cursor referenced
deferredCloseKeepsRows(r) ==
    [r |-> IF ~r.transaction /\ r.pstmt # "nil" THEN [r EXCEPT !.pstmt = "nil"] ELSE r,
     rowsClosed |-> IF r.rows # "nil" THEN 1 ELSE 0,
     stmtClosed |-> IF ~r.transaction /\ r.pstmt # "nil" THEN 1 ELSE 0]

\* the second deferred function of QueryRowResult.Scan: [r, rowsClosed, stmtClosed]
deferredClose(r) ==
    LET r1 == IF r.rows # "nil" THEN [r EXCEPT !.rows = "nil"] ELSE r
        r2 == IF ~r1.transaction /\ r1.pstmt # "nil" THEN [r1 EXCEPT !.pstmt = "nil"] ELSE r1
    IN [r |-> r2,
        rowsClosed |-> IF r.rows # "nil" THEN 1 ELSE 0,
        stmtClosed |-> IF ~r1.transaction /\ r1.pstmt # "nil" THEN 1 ELSE 0]

\* QueryRowResult.Scan: the body, then the deferred close, then the deferred
\* recover, which turns a panic into an error: [r, rowsClosed, stmtClosed, err]
Scan(r, v, ans) ==
    LET b == ScanBody(r, v, ans)
        d == deferredClose(r)
    IN [r |-> d.r, rowsClosed |-> d.rowsClosed, stmtClosed |-> d.stmtClosed,
        err |-> IF b.panic THEN "recovered" ELSE b.err]

NoRowLog ==
    [made |-> FALSE, hadStmt |-> FALSE, hadRows |-> FALSE, rowsCloses |-> 0,
     stmtCloses |-> 0, scans |-> 0, outside |-> FALSE, dest |-> <<>>, out |-> NoErr]

\* ------------------------------------------------- result.go: QueryResult
MaxOps == 3         \* operations on one QueryResult

NoResult == [pstmt |-> "nil", err |-> NoErr, rows |-> "nil"]

newQueryResultError(err) == [NoResult EXCEPT !.err = err]

newQueryResult(stmt, rows) == [NoResult EXCEPT !.pstmt = stmt, !.rows = rows]

\* Each operation gives [r, out, abort, touched]: the result afterwards, what
\* the caller gets, whether a panic left the method with no recover in it,
\* and whether the cursor was used.

\* QueryResult.Next: r.rows.Next(), a nil dereference without a cursor
QueryResultNext(r, ans) ==
    IF r.rows = "nil"
    THEN [r |-> r, out |-> "none", abort |-> TRUE, touched |-> FALSE]
    ELSE [r |-> r, out |-> IF ans \in {"row", "badScan"} THEN "true" ELSE "false",
          abort |-> FALSE, touched |-> TRUE]

\* QueryResult.GetError
GetError(r) == [r |-> r, out |-> r.err, abort |-> FALSE, touched |-> FALSE]

\* QueryResult.Scan. Its first return gives the named result err, which
\* nothing has assigned yet; r.rows.Err() comes before the deferred recover.
QueryResultScan(r, v, ans) ==
    LET ret(e) == [r |-> r, out |-> e, abort |-> FALSE, touched |-> TRUE]
    IN IF r.err # NoErr
       THEN [r |-> r, out |-> NoErr, abort |-> FALSE, touched |-> FALSE]
       ELSE IF r.rows = "nil"
       THEN [r |-> r, out |-> "none", abort |-> TRUE, touched |-> FALSE]
       ELSE IF ans \in {"err", "broken"} THEN ret("rows.Err")
       ELSE IF Len(v) = 0 THEN ret("recovered")
       ELSE IF Kind(v[1]) = "panic" THEN ret("recovered")
       ELSE IF Kind(v[1]) # "Ptr" THEN ret(ErrQueryNeedsPtrParameter)
       ELSE IF IsNilPtr(v[1]) THEN ret(ErrNilPtr)
       ELSE IF ElemKind(v[1]) = "Interface" THEN ret(ErrInterfaceIsNotSupported)
       ELSE IF ElemKind(v[1]) = "Ptr" THEN ret(ErrPtrIsNotSupported)
       ELSE IF ElemKind(v[1]) = "Struct" /\ ~isValuer(Deref(v[1]))
            THEN ret(scanToStruct(ans))
       ELSE ret(rowsScan(ans))

\* QueryResult.Close: r.rows.Close() when there is a cursor, then the deferred
\* function drops the cursor and closes and drops the statement
QueryResultClose(r) ==
    [r |-> [r EXCEPT !.rows = "nil", !.pstmt = "nil"], out |-> NoErr,
     abort |-> FALSE, touched |-> r.rows # "nil"]

NoResultLog ==
    [made |-> FALSE, err |-> NoErr, ops |-> 0, op |-> "none", out |-> "none",
     abort |-> FALSE, touched |-> 0]

\* ------------------------------------------- the execution-record queue
QueueCap == 1       \* capacity of execRecordChan
MaxCalls == 2       \* execute or query calls of one caller
MaxCloses == 2      \* Close calls

Callers == {"c1", "c2"}
Threads == Callers \cup {"closer", "consumer"}

\* a channel of capacity QueueCap: nil, or the records in it and whether it
\* has been closed
NilChan == [nil |-> TRUE, buf |-> <<>>, closed |-> FALSE]
NewChan == [nil |-> FALSE, buf |-> <<>>, closed |-> FALSE]

\* queryExecution{close: true} and newQueryExecution(stmtId, start)
CloseSignal == "close"
newQueryExecution(t) == t

\* ch <- x: "ok" with the channel afterwards, "panic" on a closed channel,
\* "block" while the buffer is full
Send(ch, x) ==
    IF ch.closed THEN [out |-> "panic", ch |-> ch]
    ELSE IF Len(ch.buf) >= QueueCap THEN [out |-> "block", ch |-> ch]
    ELSE [out |-> "ok", ch |-> [ch EXCEPT !.buf = Append(ch.buf, x)]]

\* QueryMan.recordExcution: [out, ch]; "skip" when the channel is nil
recordExcution(ch, t) ==
    IF ~ch.nil THEN Send(ch, newQueryExecution(t))
    ELSE [out |-> "skip", ch |-> ch]

StartThreads == [t \in Threads |-> [pc |-> "idle", done |-> 0, panics |-> <<>>]]

\* ------------------------------------------------------------------ state
VARIABLES
    statementMap,   \* QueryMan.statementMap: upper-case id -> QueryStatement
    loadPos,        \* the next statement of Catalogue the loader registers
    pc,             \* "load" | "idle" | "validate" | "prepare" | "iterate"
                    \* | "returned" | "done" | "again"
    call,           \* the call in progress: [entry, id, v]
    ret,            \* what the call returned: [kind, err, res, idList, rowAffected]
    refine,         \* what refineConditional did in the call
    proxyLog,       \* the calls made on the SqlProxy by the call
    handles,        \* the prepared statements of the call: [open, closes]
    execLog,        \* the pstmt.Exec calls of the call
    bat,            \* the batch executor's locals
    queryRowResult, \* a QueryRowResult: [transaction, pstmt, err, rows]
    rowLog,         \* what happened to its cursor and statement: [made, hadStmt,
                    \* rowsCloses, stmtCloses, scans, outside, dest, out]
    execRecordChan, \* QueryMan.execRecordChan: [nil, buf, closed]
    threads,        \* the goroutines using it: name -> [pc, done, panics]
    queryResult,    \* a QueryResult: [pstmt, err, rows]
    resultLog       \* what its caller did with it and got: [made, err, ops, op,
                    \* out, abort, touched]

vars ==
    <<statementMap, loadPos, pc, call, ret, refine, proxyLog, handles, execLog, bat,
      queryRowResult, rowLog, execRecordChan, threads, queryResult, resultLog>>

NoCall == [entry |-> "none", id |-> "", v |-> <<>>]
NoRet == [kind |-> "none", err |-> NoErr, res |-> "nil", idList |-> <<>>, rowAffected |-> 0]
NoBat ==
    [shape |-> "none", stmt |-> Statement(eleTypeUnknown, "", <<>>, <<>>),
     all |-> <<>>, args |-> <<>>, offset |-> 0, pass |-> 0, i |-> 0,
     result |-> EmptyResult, executed |-> 0, err |-> NoErr,
     first |-> EmptyResult]

InitMain ==
    /\ statementMap = <<>>
    /\ loadPos = 1
    /\ pc = "load"
    /\ call = NoCall
    /\ ret = NoRet
    /\ refine = NoRefine
    /\ proxyLog = <<>>
    /\ queryRowResult = NoRow
    /\ rowLog = NoRowLog
    /\ queryResult = NoResult
    /\ resultLog = NoResultLog
    /\ handles = <<>>
    /\ execLog = <<>>
    /\ bat = NoBat

\* a QueryMan that records no execution: its execRecordChan is nil
Init ==
    /\ InitMain
    /\ execRecordChan = NilChan
    /\ threads = StartThreads

\* the loader registers the next statement of the catalogue
Regist ==
    /\ pc = "load"
    /\ statementMap' = registStatement(statementMap, Catalogue[loadPos])
    /\ loadPos' = loadPos + 1
    /\ pc' = IF loadPos = Len(Catalogue) THEN "idle" ELSE "load"
    /\ UNCHANGED <<call, ret, refine, proxyLog, handles, execLog, bat, queryRowResult, rowLog,
                   execRecordChan, threads, queryResult, resultLog>>

Handler(entry, id, v, drv) ==
    CASE entry = "execute" -> ExecuteWithStmt(statementMap, id, v, drv)
      [] entry = "query" -> QueryWithStmt(statementMap, id, v, drv)
      [] entry = "queryRow" -> QueryRowWithStmt(statementMap, id, v, drv)

\* what the call refined, set against what the call before it refined
sinceLast(now, last) ==
    IF now.did /\ last.did /\ last.id = now.id /\ last.params = now.params
    THEN [now EXCEPT !.again = TRUE, !.before = last.text]
    ELSE now

\* ExecuteWithStmt, QueryWithStmt or QueryRowWithStmt, up to its return or up
\* to the first doExec... call of a batch
CallWith(entry, id, v, drv) ==
    LET o == Handler(entry, id, v, drv)
    IN /\ call' = [entry |-> entry, id |-> id, v |-> v]
       /\ refine' = sinceLast(o.refine, refine)
       /\ proxyLog' = o.proxy
       /\ handles' = <<>>
       /\ execLog' = <<>>
       /\ IF o.kind = "batch"
          THEN /\ pc' = "validate"
               /\ ret' = NoRet
               /\ bat' = [NoBat EXCEPT !.shape = o.shape, !.stmt = o.stmt,
                                       !.all = o.args, !.args = o.args, !.pass = 1]
          ELSE /\ pc' = "done"
               /\ ret' = [NoRet EXCEPT !.kind = o.kind, !.err = o.err, !.res = o.res]
               /\ bat' = NoBat
       /\ UNCHANGED <<queryResult, resultLog, execRecordChan, threads, queryRowResult, rowLog, statementMap, loadPos>>

\* a call from idle is any call; a call from "again" is the call before it
\* made once more
Call ==
    /\ pc \in {"idle", "again"}
    /\ \E entry \in (IF pc = "idle" THEN Entries ELSE {call.entry}),
          id \in (IF pc = "idle" THEN CallIds ELSE {call.id}),
          v \in (IF pc = "idle" THEN Inputs ELSE {call.v}),
          drv \in DriverAnswers :
         CallWith(entry, id, v, drv)

\* CreateBulkWithStmt, which takes no parameter and calls no driver
CreateBulk ==
    /\ pc = "idle"
    /\ \E id \in CallIds :
         LET o == CreateBulkWithStmt(statementMap, id)
         IN /\ call' = [entry |-> "bulk", id |-> id, v |-> <<>>]
            /\ ret' = [NoRet EXCEPT !.kind = o.kind, !.err = o.err, !.res = o.res]
            /\ proxyLog' = o.proxy
    /\ pc' = "done"
    /\ UNCHANGED <<queryResult, resultLog, execRecordChan, threads, queryRowResult, rowLog, statementMap, loadPos, refine, handles, execLog, bat>>

\* a panic inside doExec...: the deferred Close runs, the panic leaves
\* execWith... and the recover of execute turns it into an error
closeLast(hs, why) ==
    IF deferClose(why)
    THEN [hs EXCEPT ![Len(hs)] = [open |-> FALSE, closes |-> hs[Len(hs)].closes + 1]]
    ELSE hs

Panicked == [NoRet EXCEPT !.kind = "ret", !.err = "recovered"]

\* doExec... returns (executed, result, err) to execWith...
passReturns(executed, result, err) ==
    /\ pc' = "returned"
    /\ bat' = [bat EXCEPT !.executed = executed, !.result = result, !.err = err]
    /\ ret' = ret

\* the validate loop at the head of doExecWithNestedList / doExecWithNestedMap
Validate ==
    /\ pc = "validate"
    /\ LET r == validate(bat.shape, bat.args, bat.stmt)
       IN \/ /\ r = "ok"
             /\ pc' = "prepare"
             /\ UNCHANGED <<bat, ret>>
          \/ /\ r = "err"
             /\ passReturns(0, EmptyResult, "validate")
          \/ /\ r = "panic"
             /\ pc' = "done"
             /\ ret' = Panicked
             /\ bat' = bat
    /\ UNCHANGED <<queryResult, resultLog, execRecordChan, threads, queryRowResult, rowLog, statementMap, loadPos, call, refine, proxyLog, handles, execLog>>

\* sqlProxy.prepare(stmt.Query) and defer pstmt.Close()
Prepare ==
    /\ pc = "prepare"
    /\ \E drv \in DriverAnswers :
         /\ proxyLog' = Append(proxyLog, ProxyCall("prepare", bat.stmt.Query, <<>>, drv))
         /\ IF drv = "ok"
            THEN /\ handles' = Append(handles, [open |-> TRUE, closes |-> 0])
                 /\ pc' = "iterate"
                 /\ bat' = [bat EXCEPT !.i = 0, !.result = EmptyResult]
                 /\ ret' = ret
            ELSE /\ handles' = handles
                 /\ passReturns(0, EmptyResult, drv)
    /\ UNCHANGED <<queryResult, resultLog, execRecordChan, threads, queryRowResult, rowLog, statementMap, loadPos, call, refine, execLog>>

ExecRecord(row, outcome, affected, id) ==
    [row |-> row, pass |-> bat.pass, handle |-> Len(handles), open |-> handles[Len(handles)].open,
     outcome |-> outcome, affected |-> affected, id |-> id]

\* the id the driver generates for the next successful Exec of the call
nextInsertId == Cardinality({k \in 1..Len(execLog) : execLog[k].outcome = "ok"}) + 1

\* one iteration of the iterate loop, or the return after the last one
ExecRow ==
    /\ pc = "iterate"
    /\ bat.i < Len(bat.args)
    /\ LET v == bat.args[bat.i + 1]
           r == resolveRow(bat.shape, v, bat.stmt)
       IN \/ /\ r.panic
             /\ handles' = closeLast(handles, "panic")
             /\ pc' = "done"
             /\ ret' = Panicked
             /\ UNCHANGED <<bat, execLog>>
          \/ /\ ~r.panic /\ r.err # NoErr
             /\ handles' = closeLast(handles, "bind")
             /\ passReturns(bat.i, bat.result, r.err)
             /\ UNCHANGED execLog
          \/ /\ ~r.panic /\ r.err = NoErr
             /\ \E drv \in {"driver", ErrBadConn} :
                  /\ execLog' = Append(execLog, ExecRecord(bat.offset + bat.i, drv, 0, 0))
                  /\ handles' = closeLast(handles, "exec")
                  /\ passReturns(bat.i, bat.result, drv)
          \/ /\ ~r.panic /\ r.err = NoErr
             /\ \E affected \in 1..MaxAffected, idok \in BOOLEAN :
                  LET counted == [bat.result EXCEPT !.rowAffected = @ + affected]
                  IN IF bat.stmt.eleType = eleTypeInsert /\ ~idok
                     THEN /\ execLog' = Append(execLog,
                                  ExecRecord(bat.offset + bat.i, "ok", affected, 0))
                          /\ handles' = closeLast(handles, "noid")
                          /\ passReturns(bat.i, counted, "noid")
                     ELSE /\ execLog' = Append(execLog,
                                  ExecRecord(bat.offset + bat.i, "ok", affected,
                                             IF bat.stmt.eleType = eleTypeInsert
                                             THEN nextInsertId ELSE 0))
                          /\ handles' = handles
                          /\ pc' = "iterate"
                          /\ ret' = ret
                          /\ bat' = [bat EXCEPT
                                       !.i = @ + 1,
                                       !.result = IF bat.stmt.eleType = eleTypeInsert
                                                  THEN addInsertId(counted, nextInsertId)
                                                  ELSE counted]
    /\ UNCHANGED <<queryResult, resultLog, execRecordChan, threads, queryRowResult, rowLog, statementMap, loadPos, call, refine, proxyLog>>

\* return len(args), result, nil
PassDone ==
    /\ pc = "iterate"
    /\ bat.i = Len(bat.args)
    /\ handles' = closeLast(handles, "done")
    /\ passReturns(Len(bat.args), bat.result, NoErr)
    /\ UNCHANGED <<queryResult, resultLog, execRecordChan, threads, queryRowResult, rowLog, statementMap, loadPos, call, refine, proxyLog, execLog>>

\* execWith...: the first pass failed with driver.ErrBadConn, doExec... is
\* called again with args[executed:]
Retry ==
    /\ pc = "returned"
    /\ shouldRetry(bat.pass, bat.err)
    /\ pc' = "validate"
    /\ bat' = [bat EXCEPT !.pass = bat.pass + 1, !.first = bat.result,
                          !.args = retryArgs(bat.args, bat.executed),
                          !.offset = bat.offset + (Len(bat.args) - Len(retryArgs(bat.args, bat.executed))),
                          !.i = 0, !.result = EmptyResult, !.err = NoErr]
    /\ UNCHANGED <<queryResult, resultLog, execRecordChan, threads, queryRowResult, rowLog, statementMap, loadPos, call, ret, refine, proxyLog, handles, execLog>>

\* execWith... returns (result, err)
Return ==
    /\ pc = "returned"
    /\ ~shouldRetry(bat.pass, bat.err)
    /\ pc' = "done"
    /\ LET result == IF bat.pass = 1 THEN bat.result
                     ELSE mergeResult(bat.first, bat.result, bat.err)
       IN ret' = [kind |-> "ret", err |-> bat.err, res |-> "multi",
                  idList |-> result.idList, rowAffected |-> result.rowAffected]
    /\ UNCHANGED <<queryResult, resultLog, execRecordChan, threads, queryRowResult, rowLog, statementMap, loadPos, call, refine, proxyLog, handles, execLog, bat>>

\* the caller has its answer; the next call starts afresh
Reset ==
    /\ pc = "done"
    /\ pc' = "idle"
    /\ call' = NoCall
    /\ ret' = NoRet
    /\ refine' = NoRefine
    /\ proxyLog' = <<>>
    /\ handles' = <<>>
    /\ execLog' = <<>>
    /\ bat' = NoBat
    /\ UNCHANGED <<queryResult, resultLog, execRecordChan, threads, queryRowResult, rowLog, statementMap, loadPos>>

\* the caller has its answer and is about to make the call, which refined a
\* statement, once more with the same parameters
Again ==
    /\ pc = "done"
    /\ refine.did /\ ~refine.again
    /\ pc' = "again"
    /\ ret' = NoRet
    /\ proxyLog' = <<>>
    /\ handles' = <<>>
    /\ execLog' = <<>>
    /\ bat' = NoBat
    /\ UNCHANGED <<queryResult, resultLog, execRecordChan, threads, queryRowResult, rowLog, statementMap, loadPos, call, refine>>

Next ==
    \/ Regist
    \/ Call
    \/ CreateBulk
    \/ Validate
    \/ Prepare
    \/ ExecRow
    \/ PassDone
    \/ Retry
    \/ Return
    \/ Reset
    \/ Again

Spec == Init /\ [][Next]_vars

\* ------------------------------------------------- the single-row result
mainVars ==
    <<statementMap, loadPos, pc, call, ret, refine, proxyLog, handles, execLog, bat>>

\* QueryRowWithStmt makes the result with newQueryRowResultError or with
\* newQueryRowResult(nil, rows); a caller that prepared the statement itself
\* makes it with newQueryRowResult(stmt, rows)
NewRow ==
    /\ ~rowLog.made
    /\ \/ \E err \in {ErrQueryInvalidSqlType, "driver"} :
            /\ queryRowResult' = newQueryRowResultError(err)
            /\ rowLog' = [NoRowLog EXCEPT !.made = TRUE]
       \/ \E stmt \in {"nil", "stmt"} :
            /\ queryRowResult' = newQueryRowResult(stmt, "rows")
            /\ rowLog' = [NoRowLog EXCEPT !.made = TRUE, !.hadRows = TRUE,
                                          !.hadStmt = (stmt # "nil")]
    /\ UNCHANGED <<mainVars, execRecordChan, threads, queryResult, resultLog>>

SetTransactionRow ==
    /\ rowLog.made /\ ~queryRowResult.transaction
    /\ queryRowResult' = SetTransaction(queryRowResult)
    /\ UNCHANGED <<rowLog, mainVars, execRecordChan, threads, queryResult, resultLog>>

ScanRow ==
    /\ rowLog.made /\ rowLog.scans < MaxScans
    /\ \E v \in Dests, ans \in RowAnswers :
         LET s == Scan(queryRowResult, v, ans)
         IN /\ queryRowResult' = s.r
            /\ rowLog' = [rowLog EXCEPT !.scans = @ + 1,
                                        !.rowsCloses = @ + s.rowsClosed,
                                        !.stmtCloses = @ + s.stmtClosed,
                                        !.outside = @ \/ ~queryRowResult.transaction,
                                        !.dest = v, !.out = s.err]
    /\ UNCHANGED <<mainVars, execRecordChan, threads, queryResult, resultLog>>

\* the result is dropped, the caller makes the next one
DropRow ==
    /\ rowLog.made /\ rowLog.scans >= 1
    /\ queryRowResult' = NoRow
    /\ rowLog' = NoRowLog
    /\ UNCHANGED <<mainVars, execRecordChan, threads, queryResult, resultLog>>

NextRow ==
    \/ NewRow
    \/ SetTransactionRow
    \/ ScanRow
    \/ DropRow

SpecRow == Init /\ [][NextRow]_vars

\* --------------------------------- goroutines on the execution-record queue
restVars == <<mainVars, queryRowResult, rowLog, queryResult, resultLog>>

\* close(ch): panics on a channel that is already closed
CloseOf(ch) ==
    IF ch.closed THEN [out |-> "panic", ch |-> ch]
    ELSE [out |-> "ok", ch |-> [ch EXCEPT !.closed = TRUE]]

At(t, where) == [threads EXCEPT ![t].pc = where]
Finished(t) == [threads EXCEPT ![t].pc = "idle", ![t].done = @ + 1]
PanickedIn(t, what) ==
    [threads EXCEPT ![t].pc = "panicked", ![t].panics = Append(@, what)]

\* a caller's driver call has returned: the handler goes on to recordExcution
DriverCall(t) ==
    /\ threads[t].pc = "idle"
    /\ threads[t].done < MaxCalls
    /\ threads' = At(t, "record")
    /\ UNCHANGED <<execRecordChan, restVars>>

\* the send of recordExcution completes (it waits while the queue is full)
Record(t) ==
    /\ threads[t].pc = "record"
    /\ LET r == recordExcution(execRecordChan, t) IN
        /\ r.out # "block"
        /\ execRecordChan' = r.ch
        /\ threads' = IF r.out = "panic" THEN PanickedIn(t, "send")
                      ELSE Finished(t)
    /\ UNCHANGED restVars

\* Close, the nil test: without a channel it goes straight to db.Close()
CloseStart ==
    /\ threads["closer"].pc = "idle"
    /\ threads["closer"].done < MaxCloses
    /\ threads' = IF execRecordChan.nil THEN Finished("closer")
                  ELSE At("closer", "signal")
    /\ UNCHANGED <<execRecordChan, restVars>>

\* Close, the send of the close signal
CloseSend ==
    /\ threads["closer"].pc = "signal"
    /\ LET r == Send(execRecordChan, CloseSignal) IN
        /\ r.out # "block"
        /\ execRecordChan' = r.ch
        /\ threads' = IF r.out = "panic" THEN PanickedIn("closer", "send")
                      ELSE At("closer", "close")
    /\ UNCHANGED restVars

\* Close, close(man.execRecordChan) and the return
CloseChan ==
    /\ threads["closer"].pc = "close"
    /\ LET r == CloseOf(execRecordChan) IN
        /\ execRecordChan' = r.ch
        /\ threads' = IF r.out = "panic" THEN PanickedIn("closer", "close")
                      ELSE Finished("closer")
    /\ UNCHANGED restVars

\* the consumer takes the oldest record and stops at the close signal
Consume ==
    /\ threads["consumer"].pc = "idle"
    /\ execRecordChan.buf # <<>>
    /\ execRecordChan' = [execRecordChan EXCEPT !.buf = Tail(@)]
    /\ threads' = IF Head(execRecordChan.buf) = CloseSignal
                  THEN At("consumer", "stopped")
                  ELSE Finished("consumer")
    /\ UNCHANGED restVars

InitChan ==
    /\ InitMain
    /\ execRecordChan \in {NilChan, NewChan}
    /\ threads = StartThreads

NextChan ==
    \/ \E t \in Callers : DriverCall(t)
    \/ \E t \in Callers : Record(t)
    \/ CloseStart
    \/ CloseSend
    \/ CloseChan
    \/ Consume

SpecChan == InitChan /\ [][NextChan]_vars

\* ------------------------------------------- a caller holding a QueryResult
\* QueryWithStmt returns newQueryResultError(err) for an unknown id, a
\* statement that is no Select, a refinement, binding or driver error, and
\* otherwise a result with a cursor
NewResult ==
    /\ ~resultLog.made
    /\ \/ \E err \in {"notfound", ErrQueryInvalidSqlType, "normalize", "mismatch", "driver"} :
            /\ queryResult' = newQueryResultError(err)
            /\ resultLog' = [NoResultLog EXCEPT !.made = TRUE, !.err = err]
       \/ \E stmt \in {"nil", "stmt"} :
            /\ queryResult' = newQueryResult(stmt, "rows")
            /\ resultLog' = [NoResultLog EXCEPT !.made = TRUE]
    /\ UNCHANGED <<mainVars, queryRowResult, rowLog, execRecordChan, threads>>

\* the caller calls Next, GetError, Scan or Close on the result it holds
UseResult ==
    /\ resultLog.made /\ ~resultLog.abort /\ resultLog.ops < MaxOps
    /\ \E op \in {"Next", "GetError", "Scan", "Close"}, v \in Dests, ans \in RowAnswers :
         LET o == CASE op = "Next" -> QueryResultNext(queryResult, ans)
                    [] op = "GetError" -> GetError(queryResult)
                    [] op = "Scan" -> QueryResultScan(queryResult, v, ans)
                    [] op = "Close" -> QueryResultClose(queryResult)
         IN /\ queryResult' = o.r
            /\ resultLog' = [resultLog EXCEPT !.ops = @ + 1, !.op = op, !.out = o.out,
                                              !.abort = o.abort,
                                              !.touched = @ + (IF o.touched THEN 1 ELSE 0)]
    /\ UNCHANGED <<mainVars, queryRowResult, rowLog, execRecordChan, threads>>

SpecResult == Init /\ [][NewResult \/ UseResult]_vars

\* ================================================================ claims
IsInsert == bat.stmt.eleType = eleTypeInsert
BatchDone == pc = "done" /\ bat.shape # "none"
BatchRows == 0..(Len(bat.all) - 1)

\* the Exec calls that succeeded, as indexes of execLog
OkExecs == {k \in 1..Len(execLog) : execLog[k].outcome = "ok"}
OkExecsOf(row) == {k \in OkExecs : execLog[k].row = row}

RECURSIVE SumAffected(_)
SumAffected(S) ==
    IF S = {} THEN 0
    ELSE LET k == CHOOSE x \in S : TRUE
         IN execLog[k].affected + SumAffected(S \ {k})

\* the identifiers the driver generated for rows from..to, in row order, when
\* each of these rows succeeded once
IdsOfRows(from, to) ==
    [j \in 1..(to - from + 1) |->
        execLog[CHOOSE k \in OkExecsOf(from + j - 1) : TRUE].id]

EveryRowOkOnce(rows) ==
    \A r \in rows : /\ Cardinality(OkExecsOf(r)) = 1
                    /\ IsInsert => \A k \in OkExecsOf(r) : execLog[k].id # 0

NoConnectionLoss ==
    /\ \A k \in 1..Len(execLog) : execLog[k].outcome # ErrBadConn
    /\ \A k \in 1..Len(proxyLog) : proxyLog[k].ans # ErrBadConn

\* C1: a batch in which every row executes successfully and the connection is
\* never lost returns the sum of the rows' affected counts and, for an Insert,
\* the identifier of every row in row order, for another kind no identifier.
C1_BatchResult ==
    (BatchDone /\ NoConnectionLoss /\ EveryRowOkOnce(BatchRows)
        /\ Len(execLog) = Len(bat.all))
    => /\ ret.res = "multi"
       /\ ret.rowAffected = SumAffected(OkExecs)
       /\ IF IsInsert THEN ret.idList = IdsOfRows(0, Len(bat.all) - 1)
          ELSE ret.idList = <<>>

C1_Witness ==
    /\ BatchDone /\ NoConnectionLoss /\ EveryRowOkOnce(BatchRows)
    /\ Len(execLog) = Len(bat.all)
    /\ IsInsert /\ bat.shape = "struct"
    /\ Len(bat.all) = 3 /\ Len(ret.idList) = 3 /\ ret.rowAffected = 4

\* the first pass lost the connection at row k (k = bat.offset of the retry)
RetriedAt(k) ==
    /\ bat.pass = 2 /\ bat.offset = k
    /\ \E j \in 1..Len(execLog) :
         /\ execLog[j].pass = 1 /\ execLog[j].row = k
         /\ execLog[j].outcome = ErrBadConn

\* C2: when the first pass loses the connection at row k and the retry over
\* rows k..N-1 succeeds, the call returns no error and the result of a run
\* without fault: the affected counts of all N rows summed, the identifiers of
\* all N rows in row order; every row has succeeded exactly once.
C2_RetryMerges ==
    \A k \in BatchRows :
      (BatchDone /\ RetriedAt(k)
         /\ \A r \in k..(Len(bat.all) - 1) :
              \E j \in OkExecsOf(r) : execLog[j].pass = 2 /\ (IsInsert => execLog[j].id # 0))
      => /\ ret.err = NoErr
         /\ ret.res = "multi"
         /\ EveryRowOkOnce(BatchRows)
         /\ ret.rowAffected = SumAffected(OkExecs)
         /\ IF IsInsert THEN ret.idList = IdsOfRows(0, Len(bat.all) - 1)
            ELSE ret.idList = <<>>

C2_Witness ==
    /\ BatchDone /\ RetriedAt(1) /\ IsInsert /\ Len(bat.all) = 3
    /\ ret.err = NoErr /\ Len(ret.idList) = 3
    /\ Cardinality(OkExecs) = 3

\* C3: when element k fails for a reason other than connection loss, the call
\* returns an error together with a result holding exactly rows 0..k-1 (their
\* affected counts and, for an Insert, their identifiers); no later element is
\* executed and nothing is retried. Here k = bat.i, the index the loop stood at.
C3_PartialResult ==
    (BatchDone /\ bat.pass = 1 /\ ret.err # NoErr)
    => /\ ret.res = "multi"
       /\ ret.rowAffected = SumAffected({j \in OkExecs : execLog[j].row < bat.i})
       /\ IsInsert => ret.idList = IdsOfRows(0, bat.i - 1)
       /\ ~IsInsert => ret.idList = <<>>
       /\ \A j \in 1..Len(execLog) : execLog[j].row <= bat.i
       /\ Cardinality({j \in 1..Len(proxyLog) : proxyLog[j].op = "prepare"}) <= 1

\* C4: a batch is retried once at most. A second pass follows a first pass that
\* lost the connection and only that; it runs over args[k:], k the number of
\* rows the first pass completed; whatever the second pass returns is returned
\* to the caller; no row succeeds twice.
C4_State ==
    /\ bat.pass <= 2
    /\ \A r \in BatchRows : Cardinality(OkExecsOf(r)) <= 1
    /\ \A i, j \in 1..Len(execLog) :
         (execLog[i].pass = 1 /\ execLog[i].outcome = "ok" /\ execLog[j].pass = 2)
         => execLog[j].row > execLog[i].row
    /\ bat.pass = 2 =>
         \/ \E j \in 1..Len(execLog) :
              /\ execLog[j].pass = 1 /\ execLog[j].outcome = ErrBadConn
              /\ execLog[j].row = bat.offset
         \/ /\ proxyLog[1].ans = ErrBadConn
            /\ bat.offset = 0

C4_Step ==
    /\ (pc = "returned" /\ bat.pass = 1 /\ bat.err = ErrBadConn)
       => /\ pc' = "validate"
          /\ bat'.pass = 2
          /\ bat'.args = SubSeq(bat.all, bat.executed + 1, Len(bat.all))
    /\ (pc = "returned" /\ bat.pass = 2)
       => /\ pc' = "done"
          /\ ret'.err = bat.err

C4_RetryOnce == [](C4_State) /\ [][C4_Step]_vars

C4_Witness ==
    /\ BatchDone /\ bat.pass = 2 /\ bat.offset = 1
    /\ ret.err = ErrBadConn
    /\ \E j \in OkExecs : execLog[j].pass = 2

\* whether element e has the shape of the batch and a value for every column
sharesShape(shape, e) ==
    CASE shape = "list" -> Kind(e) \in {"Slice", "Array"}
      [] shape = "map" -> Kind(e) = "Map"
      [] shape = "struct" -> Kind(e) # "panic" /\ ~IsNilPtr(e) /\ Deref(e).ind = "val"
                             /\ baseKind(e) = "Struct"

supplied(shape, e) ==
    IF shape = "list" THEN Len(e.elems) ELSE Cardinality(e.keys)

\* C5: a batch with an element of another shape, or with fewer values than the
\* statement has columns, fails before prepare is called: no row is executed.
C5_ValidateFirst ==
    (bat.shape # "none"
       /\ \E i \in 1..Len(bat.all) :
            \/ ~sharesShape(bat.shape, bat.all[i])
            \/ supplied(bat.shape, bat.all[i]) < Len(bat.stmt.columnMention))
    => /\ \A j \in 1..Len(proxyLog) : proxyLog[j].op # "prepare"
       /\ execLog = <<>>

Prepares == {j \in 1..Len(proxyLog) : proxyLog[j].op = "prepare"}

\* C6: a pass prepares one statement, runs all its rows on it while it is open
\* and closes it once however the pass ends; a call that has returned has no
\* open handle.
C6_OneHandlePerPass ==
    /\ Cardinality(Prepares) <= bat.pass
    /\ Len(handles) <= Cardinality(Prepares)
    /\ \A j \in 1..Len(execLog) : execLog[j].open
    /\ \A i, j \in 1..Len(execLog) :
         (execLog[i].pass = execLog[j].pass) <=> (execLog[i].handle = execLog[j].handle)
    /\ \A h \in 1..Len(handles) :
         /\ handles[h].closes <= 1
         /\ handles[h].open <=> handles[h].closes = 0
         /\ handles[h].open => (pc = "iterate" /\ h = Len(handles))
    /\ pc = "iterate" => handles[Len(handles)].open

C6_Witness ==
    /\ BatchDone /\ Len(handles) = 2
    /\ ret.err = "recovered"
    /\ \A h \in 1..2 : ~handles[h].open /\ handles[h].closes = 1
    /\ Cardinality({j \in 1..Len(execLog) : execLog[j].handle = 1}) = 2

ConditionalCall ==
    /\ call.entry # "none"
    /\ ToUpper(call.id) \in DOMAIN statementMap
    /\ HasCondition(statementMap[ToUpper(call.id)])

\* C8: whatever the entry point and the shape of the parameter, no text that a
\* call on a statement with conditional clauses hands to the proxy holds a
\* clause token.
C8_NoClauseToken ==
    ConditionalCall =>
        \A j \in 1..Len(proxyLog) : \A t \in ClauseIds : ~Contains(proxyLog[j].text, t)

\* the fragment of clause c goes into the text
included(c, params) == ~params.nil /\ (c.exist <=> c.key \in params.keys)

\* every symbol of query that is a clause token gives way to the clause's
\* fragment or to nothing
RECURSIVE Substituted(_, _, _)
Substituted(query, clauses, params) ==
    IF query = <<>> THEN <<>>
    ELSE LET hits == {i \in 1..Len(clauses) : clauses[i].id = Head(query)}
             c == clauses[CHOOSE i \in hits : TRUE]
         IN (IF hits = {} THEN <<Head(query)>>
             ELSE IF included(c, params) THEN c.query ELSE <<>>)
            \o Substituted(Tail(query), clauses, params)

\* C9: the text RefineStatement hands to the normalizer is the registered text
\* with every clause token replaced: by nothing under a nil presence map, by
\* the fragment of an includeIfPresent clause iff its key is in the map, by
\* the fragment of an includeIfAbsent clause iff its key is not in the map;
\* no token is left and the text is normalized once.
C9_Refine ==
    refine.did =>
        LET stmt == statementMap[ToUpper(refine.id)]
        IN /\ refine.text = Substituted(stmt.Query, stmt.clause, refine.params)
           /\ \A t \in ClauseIds : ~Contains(refine.text, t)
           /\ refine.params.nil =>
                 refine.text = SelectSeq(stmt.Query, LAMBDA x : x \notin ClauseIds)
           /\ refine.normalized = 1

C9_Witness ==
    /\ refine.did /\ refine.id = "selC"
    /\ refine.params = MapOf({"a", "b"})
    /\ refine.text = <<"s", ":a", "f", ":b", "g">>

\* a statement refined again with the same presence map gives the same text
C10_State == refine.again => refine.text = refine.before

\* a statement that is in the registry stays there as it is
C10_Step ==
    \A id \in DOMAIN statementMap :
        /\ id \in DOMAIN statementMap'
        /\ statementMap'[id].Query = statementMap[id].Query
        /\ statementMap'[id].HoldedQuery = statementMap[id].HoldedQuery
        /\ statementMap'[id].clause = statementMap[id].clause
        /\ statementMap'[id].columnMention = statementMap[id].columnMention

C7_ScanCloses ==
    /\ rowLog.rowsCloses <= 1 /\ rowLog.stmtCloses <= 1
    /\ rowLog.scans >= 1 =>
         /\ queryRowResult.rows = "nil"
         /\ rowLog.rowsCloses = (IF rowLog.hadRows THEN 1 ELSE 0)
         /\ rowLog.stmtCloses = (IF rowLog.hadStmt /\ rowLog.outside THEN 1 ELSE 0)
         /\ rowLog.outside => queryRowResult.pstmt = "nil"
         /\ (rowLog.hadStmt /\ ~rowLog.outside) => queryRowResult.pstmt = "stmt"

C7_Witness ==
    /\ rowLog.scans = 2 /\ rowLog.hadStmt /\ rowLog.outside
    /\ rowLog.out = "recovered"
    /\ rowLog.rowsCloses = 1 /\ rowLog.stmtCloses = 1

\* the list bound to the array column of the call's statement, when the call
\* binds one: positionally next to a scalar, or under the column's name in a map
ArrayArg ==
    IF Len(call.v) = 2 /\ call.id = "updIn" THEN call.v[1]
    ELSE IF Len(call.v) = 2 /\ call.id = "selIn" THEN call.v[2]
    ELSE IF Len(call.v) = 1 /\ call.v[1].kind = "map" /\ call.v[1].ind = "val"
            /\ call.v[1].keys = {"a", "b"} /\ call.v[1].elems # <<>>
         THEN call.v[1].elems[1]
    ELSE Nil

\* the call binds a list to the one array column of its statement and a
\* scalar to the other column, by an entry point that accepts the statement
ArrayCall ==
    /\ pc = "done"
    /\ \/ call.entry = "execute" /\ call.id = "updIn"
       \/ call.entry \in {"query", "queryRow"} /\ call.id = "selIn"
    /\ \/ /\ Len(call.v) = 2
          /\ \E i \in 1..2 : call.v[i] = Scalar
       \/ Len(call.v) = 1 /\ call.v[1].kind = "map" /\ call.v[1].keys = {"a", "b"}
    /\ ArrayArg.kind \in {"slice", "sliceI", "array"}
    /\ ArrayArg.ind = "val"

CountOf(text, sym) == Cardinality({i \in 1..Len(text) : text[i] = sym})

\* n placeholders separated by commas
CommaHolds(n) == [i \in 1..(2 * n - 1) |-> IF i % 2 = 1 THEN nativeHold ELSE ","]

\* the registered text with the placeholder of the array column made n
Expanded(stmt, n) ==
    LET col == CHOOSE i \in 1..Len(stmt.columnMention) :
                  stmt.columnMention[i].bindType = columnBindTypeArray
        p == stmt.columnMention[col].holdPos
    IN SubSeq(stmt.Query, 1, p - 1) \o CommaHolds(n) \o SubSeq(stmt.Query, p + 1, Len(stmt.Query))

\* C11: a list of cnt >= 2 elements bound to the one array column, whether a
\* typed slice, an array or a []interface{}, reaches the driver with the
\* column's placeholder made cnt comma-separated placeholders and with the
\* normal column's value and the cnt elements as arguments, in column order.
C11_ArrayExpansion ==
    (ArrayCall /\ Len(ArrayArg.elems) >= 2) =>
        LET stmt == statementMap[ToUpper(call.id)]
            n == Len(ArrayArg.elems)
        IN /\ Len(proxyLog) = 1
           /\ proxyLog[1].text = Expanded(stmt, n)
           /\ CountOf(proxyLog[1].text, nativeHold) = Len(stmt.columnMention) - 1 + n
           /\ Len(proxyLog[1].param) = Len(stmt.columnMention) - 1 + n
           /\ proxyLog[1].param =
                (IF call.id = "updIn" THEN ArrayArg.elems \o <<Scalar>>
                 ELSE <<Scalar>> \o ArrayArg.elems)

\* the entry point of the call accepts the kind of the call's statement, which
\* is registered and has no conditional clause
PlainCall ==
    /\ call.entry \in Entries
    /\ ToUpper(call.id) \in DOMAIN statementMap
    /\ LET stmt == statementMap[ToUpper(call.id)]
       IN /\ ~HasCondition(stmt)
          /\ IF call.entry = "execute"
             THEN stmt.eleType \in {eleTypeInsert, eleTypeUpdate}
             ELSE stmt.eleType = eleTypeSelect

\* x is bound by name: a map with string keys or a struct, or a pointer to one
ByName(x) == x.kind \in {"map", "mapT", "struct"} /\ x.ind \in {"val", "ptr"}

ColumnNames(stmt) == {stmt.columnMention[i].name : i \in 1..Len(stmt.columnMention)}

\* C12: a map or struct parameter that lacks a declared column name makes the
\* call fail with the not-found error and nothing reaches the driver, for a
\* statement with or without an array column; a map or struct element of a
\* batch that lacks a name is never executed and the batch fails; no argument
\* sent to the driver is the nil of a missing name.
C12_MissingName ==
    /\ (PlainCall /\ pc = "done" /\ Len(call.v) = 1 /\ ByName(call.v[1])
        /\ ~(ColumnNames(statementMap[ToUpper(call.id)]) \subseteq call.v[1].keys))
       => /\ ret.err = "notfound"
          /\ proxyLog = <<>>
    /\ bat.shape \in {"map", "struct"}
       => /\ \A j \in 1..Len(execLog) :
               ColumnNames(bat.stmt) \subseteq bat.all[execLog[j].row + 1].keys
          /\ (pc = "done" /\ \E i \in 1..Len(bat.all) :
                                ~(ColumnNames(bat.stmt) \subseteq bat.all[i].keys))
             => ret.err # NoErr
    /\ \A j \in 1..Len(proxyLog) : \A k \in 1..Len(proxyLog[j].param) :
         proxyLog[j].param[k] = Nil => \E i \in 1..Len(call.v) : call.v[i] = Nil

FlatList(x) ==
    /\ x.kind \in {"slice", "sliceI", "array"} /\ x.ind \in {"val", "ptr"}
    /\ \A i \in 1..Len(x.elems) : x.elems[i] = Scalar

\* the call's parameters are scalars, or one flat list of scalars
Positional ==
    \/ \A i \in 1..Len(call.v) : call.v[i] = Scalar
    \/ Len(call.v) = 1 /\ FlatList(call.v[1])

\* the one list parameter stands for its elements, not for an array column
Spread(stmt) ==
    /\ Len(call.v) = 1 /\ FlatList(call.v[1])
    /\ IF call.entry = "execute" THEN ~hasArrayBind(stmt) ELSE ~firstArgsIsArray(stmt)

\* the number of positional arguments the call supplies
SuppliedCount(stmt) == IF Spread(stmt) THEN Len(call.v[1].elems) ELSE Len(call.v)

\* C13: a call that binds positionally, by scalar arguments or by a flat list
\* of scalars, on the execute or the query path, and supplies fewer arguments
\* than the statement has columns returns the count-mismatch error without a
\* call on the proxy.
C13_CountMismatch ==
    (PlainCall /\ pc = "done" /\ Positional
     /\ SuppliedCount(statementMap[ToUpper(call.id)])
          < Len(statementMap[ToUpper(call.id)].columnMention))
    => /\ ret.err = "mismatch"
       /\ proxyLog = <<>>

\* the call is on a registered statement
FoundCall == call.entry # "none" /\ ToUpper(call.id) \in DOMAIN statementMap

\* C14: ExecuteWithStmt and CreateBulkWithStmt take an Insert or Update
\* statement and answer ErrExecutionInvalidSqlType to any other; QueryWithStmt
\* and QueryRowWithStmt take a Select statement and answer
\* ErrQueryInvalidSqlType to any other; a call that is turned away makes no
\* exec, query or prepare call and executes no row.
C14_KindChecked ==
    FoundCall =>
        LET kind == statementMap[ToUpper(call.id)].eleType
            writes == kind \in {eleTypeInsert, eleTypeUpdate}
            reads == kind = eleTypeSelect
            executes == call.entry \in {"execute", "bulk"}
        IN /\ (executes /\ ~writes)
              => /\ proxyLog = <<>> /\ execLog = <<>> /\ handles = <<>>
                 /\ pc = "done" => ret.err = ErrExecutionInvalidSqlType
           /\ (~executes /\ ~reads)
              => /\ proxyLog = <<>> /\ execLog = <<>> /\ handles = <<>>
                 /\ pc = "done" => ret.err = ErrQueryInvalidSqlType
           /\ (executes /\ writes) => ret.err # ErrExecutionInvalidSqlType
           /\ (~executes /\ reads) => ret.err # ErrQueryInvalidSqlType

C14_Witness ==
    /\ pc = "done" /\ call.entry = "execute" /\ call.id = "selIn"
    /\ call.v = <<Scalar, Scalar>>
    /\ ret.err = ErrExecutionInvalidSqlType /\ ret.res = "nil"
    /\ proxyLog = <<>>

\* C15: recording an execution never blocks the caller: whatever the queue
\* holds and however slow the consumer is, a caller that has reached
\* recordExcution can complete it at once, without waiting for the consumer.
C15_NeverBlocks ==
    \A t \in Callers :
        threads[t].pc = "record" => recordExcution(execRecordChan, t).out # "block"

\* C16: once Close has closed the execution-record queue it is not used
\* again: no caller and no later Close sends to the closed queue.
C16_NoSendAfterClose ==
    \A t \in Threads : \A i \in 1..Len(threads[t].panics) :
        threads[t].panics[i] # "send"

\* the entry point takes the statement of the call
TakenCall ==
    /\ call.entry \in Entries
    /\ ToUpper(call.id) \in DOMAIN statementMap
    /\ IF call.entry = "execute"
       THEN statementMap[ToUpper(call.id)].eleType \in {eleTypeInsert, eleTypeUpdate}
       ELSE statementMap[ToUpper(call.id)].eleType = eleTypeSelect

\* a map with non-string keys, a nil pointer, the untyped nil, a pointer to a
\* pointer
Unsupported(x) ==
    \/ x.kind = "mapK"
    \/ x.ind \in {"nilptr", "ptrptr"}
    \/ x = Nil

\* C17: an execute or query call given one unsupported parameter ends with an
\* ordinary error for the caller, calls the proxy not once and never ends in
\* an uncontrolled abort, with and without conditional clauses in the
\* statement.
C17_UnsupportedParameter ==
    (TakenCall /\ Len(call.v) = 1 /\ Unsupported(call.v[1]))
        => /\ proxyLog = <<>> /\ handles = <<>>
           /\ ret.kind # "abort"
           /\ pc = "done" => ret.err # NoErr

\* x is a struct or a pointer to one
IsRecord(x) == x.kind = "struct" /\ x.ind \in {"val", "ptr"}

\* C18: the refiner gets no presence map only when the call passed no
\* parameter; for a struct parameter, or a pointer to one, it gets the map of
\* the struct's field names, so the refined text is the registered text with
\* each includeIfPresent clause naming a field of the struct included.
C18_RecordPresence ==
    (refine.did /\ ~refine.again /\ pc = "done" /\ call.entry \in Entries)
        => /\ refine.params.nil => Len(call.v) = 0
           /\ (Len(call.v) = 1 /\ IsRecord(call.v[1]))
                 => LET stmt == statementMap[ToUpper(refine.id)]
                    IN /\ refine.params = MapOf(call.v[1].keys)
                       /\ refine.text
                            = Substituted(stmt.Query, stmt.clause, MapOf(call.v[1].keys))

\* the identifiers of the rows that succeeded, in the order they were executed
OkIds ==
    LET ok == SelectSeq(execLog, LAMBDA e : e.outcome = "ok")
    IN [j \in 1..Len(ok) |-> ok[j].id]

\* C19: a batch call that returns, with an error or without, retried or not,
\* returns the affected counts of all rows that succeeded in either pass
\* summed and, for an Insert, one identifier for each of these rows in row
\* order; the rows the retry executed before it failed are among them.
C19_ResultCoversAllRows ==
    BatchDone
    => /\ ret.rowAffected = SumAffected(OkExecs)
       /\ IsInsert => ret.idList = OkIds

\* C20: a call that binds parameters to a statement with an array column, by
\* position or by a map, sends the driver a text with as many placeholders as
\* it sends arguments, whatever the length of the list bound to the array
\* column (0 and 1 included), whatever its representation, and for a nil
\* pointer in its place.
C20_HoldsMatchArgs ==
    (TakenCall /\ Len(call.v) >= 1 /\ hasArrayBind(statementMap[ToUpper(call.id)]))
        => \A k \in 1..Len(proxyLog) :
              proxyLog[k].op # "prepare"
                 => CountOf(proxyLog[k].text, nativeHold) = Len(proxyLog[k].param)

\* C21: a QueryResult made with an error holds no cursor and no statement,
\* and whatever is done with it afterwards is safe: GetError and Scan give
\* the caller that error, and no operation, Next and Close included, uses a
\* cursor or ends in an uncontrolled abort.
C21_ErrorResultSafe ==
    (resultLog.made /\ resultLog.err # NoErr)
        => /\ queryResult.rows = "nil" /\ queryResult.pstmt = "nil"
           /\ queryResult.err = resultLog.err
           /\ resultLog.touched = 0
           /\ ~resultLog.abort
           /\ resultLog.op \in {"GetError", "Scan"} => resultLog.out = resultLog.err

====
